---- MODULE Spec2Model ----
(***************************************************************************)
(* Model of synthetic-test-data/random_fasta.py: a script that parses      *)
(* -reads and -len, builds the quality string once, and then prints        *)
(* `reads` four-line FASTQ records (name, sequence, "+", quality) to       *)
(* standard output.                                                        *)
(*                                                                         *)
(* Text is a sequence of one-character strings; an output stream is a      *)
(* sequence of lines.  A Python int is kept in sign-and-magnitude form     *)
(* (decimal digits, most significant first) because its width is not      *)
(* bounded, while the count handed to the string repetition of line 19     *)
(* must fit a signed 64-bit index.                                         *)
(***************************************************************************)
EXTENDS Integers, Sequences, FiniteSets

VARIABLES
    argv,       \* the command line: the -reads and -len options as given
    pc,         \* the statement the script is at
    reads,      \* args.reads (line 11)
    len,        \* args.len (line 11)
    qual,       \* qual (line 19)
    iters,      \* items the range iterator of line 23 has handed out
    name,       \* name (line 24)
    seq,        \* seq (line 25)
    rng,        \* state of the process-wide generator of module random
    out,        \* standard output, a sequence of lines
    errs,       \* the error stream, a sequence of lines
    exitcode,   \* <<>> while running, <<c>> once the process has exited with c
    run,        \* which invocation of the script this is
    prevOut     \* standard output of the previous invocation

vars == <<argv, pc, reads, len, qual, iters, name, seq, rng, out, errs,
          exitcode, run, prevOut>>

---------------------------------------------------------------------------
(* Bounds of the model. *)

\* largest -reads value tried
MaxReads == 2
\* largest -len value tried
MaxLen == 2
\* seeds 0..MaxSeed of the random generator are tried
MaxSeed == 7

---------------------------------------------------------------------------
(* Python ints. *)

DigitChars == <<"0", "1", "2", "3", "4", "5", "6", "7", "8", "9">>

DigitVal(c) == (CHOOSE k \in 1..10 : DigitChars[k] = c) - 1

RECURSIVE StripZeros(_)
StripZeros(m) ==
    IF Len(m) > 1 /\ m[1] = 0 THEN StripZeros(Tail(m)) ELSE m

RECURSIVE MagOf(_)
\* decimal digits of a natural number
MagOf(n) ==
    IF n < 10 THEN <<n>> ELSE Append(MagOf(n \div 10), n % 10)

PyInt(n) == [neg |-> n < 0, mag |-> MagOf(IF n < 0 THEN -n ELSE n)]

RECURSIVE MagValue(_)
MagValue(m) ==
    IF m = <<>> THEN 0 ELSE 10 * MagValue(SubSeq(m, 1, Len(m) - 1)) + m[Len(m)]

IntOf(v) == IF v.neg THEN -MagValue(v.mag) ELSE MagValue(v.mag)

RECURSIVE MagLess(_, _)
\* a < b on magnitudes without leading zeros
MagLess(a, b) ==
    IF Len(a) # Len(b) THEN Len(a) < Len(b)
    ELSE IF a = <<>> THEN FALSE
    ELSE IF a[1] # b[1] THEN a[1] < b[1]
    ELSE MagLess(Tail(a), Tail(b))

\* sys.maxsize = 2^63 - 1
PY_SSIZE_T_MAX == <<9, 2, 2, 3, 3, 7, 2, 0, 3, 6, 8, 5, 4, 7, 7, 5, 8, 0, 7>>
\* magnitude of -2^63
PY_SSIZE_T_MIN == <<9, 2, 2, 3, 3, 7, 2, 0, 3, 6, 8, 5, 4, 7, 7, 5, 8, 0, 8>>

\* whether v converts to an index-sized integer
FitsSsize(v) ==
    IF v.neg THEN ~MagLess(PY_SSIZE_T_MIN, v.mag)
    ELSE ~MagLess(PY_SSIZE_T_MAX, v.mag)

\* a variant of IsIntLiteral that takes a sign without digits for an integer
IsIntLiteral_SignOnly(tok) ==
    LET body == IF tok # <<>> /\ tok[1] \in {"-", "+"} THEN Tail(tok) ELSE tok
    IN  /\ tok # <<>>
        /\ \A k \in 1..Len(body) : \E d \in 1..10 : DigitChars[d] = body[k]

\* int(tok) as argparse applies it: an optional sign and at least one digit
IsIntLiteral(tok) ==
    LET body == IF tok # <<>> /\ tok[1] \in {"-", "+"} THEN Tail(tok) ELSE tok
    IN  /\ body # <<>>
        /\ \A k \in 1..Len(body) : \E d \in 1..10 : DigitChars[d] = body[k]

ParseInt(tok) ==
    LET body == IF tok[1] \in {"-", "+"} THEN Tail(tok) ELSE tok
        mag  == StripZeros([k \in 1..Len(body) |-> DigitVal(body[k])])
    IN  [neg |-> tok[1] = "-" /\ mag # <<0>>, mag |-> mag]

---------------------------------------------------------------------------
(* The command line. *)

\* the decimal text of a magnitude, and str(n)
MagToken(m) == [k \in 1..Len(m) |-> DigitChars[m[k] + 1]]

Token(n) ==
    IF n < 0 THEN <<"-">> \o MagToken(MagOf(-n)) ELSE MagToken(MagOf(n))

NotGiven == [given |-> FALSE, value |-> <<>>]
Given(tok) == [given |-> TRUE, value |-> tok]

MalformedTokens == {<<"x">>, <<"1", ".", "5">>, <<"-">>, <<>>}

ReadsTokens ==
    {Token(n) : n \in -1..MaxReads}
        \cup {<<"-">> \o MagToken(PY_SSIZE_T_MIN), <<"+", "1">>}
        \cup MalformedTokens

LenTokens ==
    {Token(n) : n \in -1..MaxLen}
        \cup {MagToken(PY_SSIZE_T_MIN),
              <<"-">> \o MagToken(PY_SSIZE_T_MIN),
              <<"-">> \o MagToken(PY_SSIZE_T_MAX) \o <<"0">>,
              <<"0", "0">>}
        \cup MalformedTokens

Argvs ==
    [reads : {NotGiven} \cup {Given(t) : t \in ReadsTokens},
     len   : {NotGiven} \cup {Given(t) : t \in LenTokens}]

\* default=75 of -len
DefaultLen == 75

\* whether parse_args accepts the command line
ArgsOk(a) ==
    /\ a.reads.given
    /\ IsIntLiteral(a.reads.value)
    /\ a.len.given => IsIntLiteral(a.len.value)

---------------------------------------------------------------------------
(* Module random: a deterministic generator whose state is seeded from     *)
(* the operating system when the module is imported (line 5).  The         *)
(* generator is abstracted to a full-period additive one; each draw        *)
(* advances the state and reduces it into the range asked for.             *)

RngMod == 64

Seeds == 0..MaxSeed

\* the state after k draws
RngSkip(s, k) == (s + 37 * k) % RngMod

\* the k-th draw from state s of a value below n
RandBelow(s, k, n) == RngSkip(s, k) % n

\* random.randint(a, b): a <= result <= b
randint(s, k, a, b) == a + RandBelow(s, k, b - a + 1)

\* random.randrange(n): 0 <= result < n
randrange(s, k, n) == RandBelow(s, k, n)

---------------------------------------------------------------------------
(* The script. *)

\* string.ascii_lowercase
ascii_lowercase ==
    <<"a", "b", "c", "d", "e", "f", "g", "h", "i", "j", "k", "l", "m",
      "n", "o", "p", "q", "r", "s", "t", "u", "v", "w", "x", "y", "z">>

bases == <<"A", "T", "G", "C">>

\* len(range(n)): the iterations of `for _ in range(n)`
RangeLen(v) == IF v.neg THEN 0 ELSE MagValue(v.mag)

\* a variant of StrMul that repeats once too often
StrMul_OffByOne(s, v) == [k \in 1..(RangeLen(v) + 1) |-> s]

\* s * n for a one-character s and a count that fits an index
StrMul(s, v) == [k \in 1..RangeLen(v) |-> s]

\* a variant of randomReadName that draws eleven letters
randomReadName_Short(s) ==
    [x \in 1..11 |-> ascii_lowercase[randint(s, x, 0, 25) + 1]]

\* line 17: twelve letters, each ascii_lowercase[randint(0, 25)]
randomReadName(s) ==
    [x \in 1..12 |-> ascii_lowercase[randint(s, x, 0, 25) + 1]]

\* a variant of RandomSeq that ranges over range(args.len + 1)
RandomSeq_ExtraBase(s, v) ==
    [j \in 1..(RangeLen(v) + 1) |-> bases[randrange(s, j, 4) + 1]]

\* a variant of RandomSeq that draws a base before it tests the count
RandomSeq_AtLeastOne(s, v) ==
    [j \in 1..(IF RangeLen(v) = 0 THEN 1 ELSE RangeLen(v)) |->
        bases[randrange(s, j, 4) + 1]]

\* line 25: one base per element of range(args.len)
RandomSeq(s, v) ==
    [j \in 1..RangeLen(v) |-> bases[randrange(s, j, 4) + 1]]

UsageLine == "usage: random_fasta.py [-h] -reads READS [-len LEN]"

ArgError(a) ==
    IF ~a.reads.given \/ IsIntLiteral(a.reads.value)
    THEN IF a.len.given /\ ~IsIntLiteral(a.len.value)
         THEN "random_fasta.py: error: argument -len: invalid int value"
         ELSE "random_fasta.py: error: the following arguments are required: -reads"
    ELSE "random_fasta.py: error: argument -reads: invalid int value"

None == [neg |-> FALSE, mag |-> <<>>]

Init ==
    /\ argv \in Argvs
    /\ rng \in Seeds
    /\ pc = "parse_args"
    /\ reads = None
    /\ len = None
    /\ qual = <<>>
    /\ iters = 0
    /\ name = <<>>
    /\ seq = <<>>
    /\ out = <<>>
    /\ errs = <<>>
    /\ exitcode = <<>>
    /\ run = 1
    /\ prevOut = <<>>

\* line 11, arguments accepted
ParseArgs ==
    /\ pc = "parse_args"
    /\ ArgsOk(argv)
    /\ reads' = ParseInt(argv.reads.value)
    /\ len' = IF argv.len.given THEN ParseInt(argv.len.value) ELSE PyInt(DefaultLen)
    /\ pc' = "qual"
    /\ UNCHANGED <<argv, qual, iters, name, seq, rng, out, errs, exitcode, run, prevOut>>

\* line 11, parser.error: usage and message on the error stream, exit status 2
ParseArgsError ==
    /\ pc = "parse_args"
    /\ ~ArgsOk(argv)
    /\ errs' = errs \o <<UsageLine, ArgError(argv)>>
    /\ exitcode' = <<2>>
    /\ pc' = "exit"
    /\ UNCHANGED <<argv, reads, len, qual, iters, name, seq, rng, out, run, prevOut>>

\* line 19
Qual ==
    /\ pc = "qual"
    /\ FitsSsize(len)
    /\ qual' = StrMul("E", len)
    /\ pc' = "for"
    /\ UNCHANGED <<argv, reads, len, iters, name, seq, rng, out, errs, exitcode, run, prevOut>>

\* line 19, the count does not fit an index: uncaught OverflowError, exit status 1
QualOverflow ==
    /\ pc = "qual"
    /\ ~FitsSsize(len)
    /\ errs' = errs \o <<"Traceback (most recent call last):",
                         "OverflowError: cannot fit 'int' into an index-sized integer">>
    /\ exitcode' = <<1>>
    /\ pc' = "exit"
    /\ UNCHANGED <<argv, reads, len, qual, iters, name, seq, rng, out, run, prevOut>>

\* a variant of ForNext that runs the body once more than range(args.reads)
ForNext_OffByOne ==
    /\ pc = "for"
    /\ iters <= RangeLen(reads)
    /\ iters' = iters + 1
    /\ pc' = "name"
    /\ UNCHANGED <<argv, reads, len, qual, name, seq, rng, out, errs, exitcode, run, prevOut>>

\* a variant of ForNext that runs the body once before it tests the count
ForNext_DoWhile ==
    /\ pc = "for"
    /\ iters = 0 \/ iters < RangeLen(reads)
    /\ iters' = iters + 1
    /\ pc' = "name"
    /\ UNCHANGED <<argv, reads, len, qual, name, seq, rng, out, errs, exitcode, run, prevOut>>

\* line 23, the range has another item
ForNext ==
    /\ pc = "for"
    /\ iters < RangeLen(reads)
    /\ iters' = iters + 1
    /\ pc' = "name"
    /\ UNCHANGED <<argv, reads, len, qual, name, seq, rng, out, errs, exitcode, run, prevOut>>

\* a variant of ForEnd that leaves the loop one item late
ForEnd_Late ==
    /\ pc = "for"
    /\ iters > RangeLen(reads)
    /\ exitcode' = <<0>>
    /\ pc' = "exit"
    /\ UNCHANGED <<argv, reads, len, qual, iters, name, seq, rng, out, errs, run, prevOut>>

\* line 23, the range is exhausted: the script ends, exit status 0
ForEnd ==
    /\ pc = "for"
    /\ iters >= RangeLen(reads)
    /\ exitcode' = <<0>>
    /\ pc' = "exit"
    /\ UNCHANGED <<argv, reads, len, qual, iters, name, seq, rng, out, errs, run, prevOut>>

\* line 24
MakeName ==
    /\ pc = "name"
    /\ name' = <<"@">> \o randomReadName(rng)
    /\ rng' = RngSkip(rng, 12)
    /\ pc' = "seq"
    /\ UNCHANGED <<argv, reads, len, qual, iters, seq, out, errs, exitcode, run, prevOut>>

\* line 25
MakeSeq ==
    /\ pc = "seq"
    /\ seq' = RandomSeq(rng, len)
    /\ rng' = RngSkip(rng, RangeLen(len))
    /\ pc' = "print_name"
    /\ UNCHANGED <<argv, reads, len, qual, iters, name, out, errs, exitcode, run, prevOut>>

\* print(line) at statement `at`, going on to statement `to`
Emit(at, line, to) ==
    /\ pc = at
    /\ out' = Append(out, line)
    /\ pc' = to
    /\ UNCHANGED <<argv, reads, len, qual, iters, name, seq, rng, errs, exitcode, run, prevOut>>

\* line 26
PrintName == Emit("print_name", name, "print_seq")
\* line 27
PrintSeq == Emit("print_seq", seq, "print_plus")
\* variants of PrintPlus that print another variable in place of "+"
PrintPlus_AsSeq == Emit("print_plus", seq, "print_qual")
PrintPlus_AsName == Emit("print_plus", name, "print_qual")
\* line 28
PrintPlus == Emit("print_plus", <<"+">>, "print_qual")
\* line 29
PrintQual == Emit("print_qual", qual, "for")

\* the caller runs the script a second time with the same command line:
\* a new process, its generator seeded afresh
RunAgain ==
    /\ pc = "exit"
    /\ run < 2
    /\ run' = run + 1
    /\ prevOut' = out
    /\ rng' \in Seeds
    /\ pc' = "parse_args"
    /\ reads' = None
    /\ len' = None
    /\ qual' = <<>>
    /\ iters' = 0
    /\ name' = <<>>
    /\ seq' = <<>>
    /\ out' = <<>>
    /\ errs' = <<>>
    /\ exitcode' = <<>>
    /\ UNCHANGED argv

Next ==
    \/ ParseArgs
    \/ ParseArgsError
    \/ Qual
    \/ QualOverflow
    \/ ForNext
    \/ ForEnd
    \/ MakeName
    \/ MakeSeq
    \/ PrintName
    \/ PrintSeq
    \/ PrintPlus
    \/ PrintQual
    \/ RunAgain

Spec == Init /\ [][Next]_vars

\* the interpreter always executes the next statement of a running script
FairSpec == Spec /\ WF_vars(Next)

---------------------------------------------------------------------------
(* Vocabulary of the properties. *)

LowercaseLetters ==
    {"a", "b", "c", "d", "e", "f", "g", "h", "i", "j", "k", "l", "m",
     "n", "o", "p", "q", "r", "s", "t", "u", "v", "w", "x", "y", "z"}

\* @[a-z]{12}
IsNameLine(l) ==
    /\ Len(l) = 13
    /\ l[1] = "@"
    /\ \A j \in 2..13 : l[j] \in LowercaseLetters

\* the length of l is the int v, or l is empty when v is negative
HasLength(l, v) == IF v.neg THEN l = <<>> ELSE PyInt(Len(l)) = v

IsSeqLine(l, v) ==
    /\ HasLength(l, v)
    /\ \A j \in 1..Len(l) : l[j] \in {"A", "T", "G", "C"}

IsQualLine(l, v) ==
    /\ HasLength(l, v)
    /\ \A j \in 1..Len(l) : l[j] = "E"

\* the arguments have been parsed successfully
Parsed == pc # "parse_args" /\ reads # None

\* the run has ended with exit status c
Exited(c) == pc = "exit" /\ exitcode = <<c>>

NoError == exitcode \in {<<>>, <<0>>}

\* max(reads, 0) loop iterations were made
MadeIterations == IF reads.neg THEN iters = 0 ELSE PyInt(iters) = reads

\* the line at 1-indexed position k of the output is of the kind its position asks for
LineInPlace(k) ==
    CASE k % 4 = 1 -> IsNameLine(out[k])
      [] k % 4 = 2 -> IsSeqLine(out[k], len)
      [] k % 4 = 3 -> out[k] = <<"+">>
      [] OTHER     -> IsQualLine(out[k], len)

---------------------------------------------------------------------------
(* The properties. *)

\* C1: for parsed reads = N >= 0 and len = L >= 0, a complete run has written
\* exactly 4*N lines to standard output (nothing for N = 0), and no run ever
\* writes more than that.
C1_LineCount ==
    (Parsed /\ ~reads.neg /\ ~len.neg) =>
        /\ Len(out) <= 4 * IntOf(reads)
        /\ Exited(0) => Len(out) = 4 * IntOf(reads)

C1_Witness ==
    /\ Exited(0)
    /\ reads = PyInt(2)
    /\ len = PyInt(1)
    /\ Len(out) = 8

\* C2: every name line written (the first line of every record) is an "@"
\* followed by exactly 12 lowercase letters, and every letter index about to be
\* drawn for a name lies in 0..25.
C2_NameLines ==
    /\ \A k \in 1..Len(out) : k % 4 = 1 => IsNameLine(out[k])
    /\ pc = "name" => \A x \in 1..12 : randint(rng, x, 0, 25) \in 0..25

C2_Witness ==
    /\ Len(out) >= 5
    /\ out[1] # out[5]
    /\ IsNameLine(out[5])

\* C3: every sequence line written (the second line of every record) has
\* length exactly len (it is empty when len is negative) and consists only of
\* the characters A, T, G, C.
C3_SeqLines ==
    \A k \in 1..Len(out) : k % 4 = 2 => IsSeqLine(out[k], len)

C3_Witness ==
    /\ Len(out) >= 6
    /\ len = PyInt(2)
    /\ Len(out[6]) = 2
    /\ out[2] # out[6]

\* C4: every quality line written (the fourth line of every record) is len
\* repetitions of "E"; qual, once computed, keeps that value for the rest of
\* the run, so every quality line of a run is the same.
C4_QualLines ==
    /\ \A k \in 1..Len(out) : k % 4 = 0 => IsQualLine(out[k], len) /\ out[k] = qual
    /\ (Parsed /\ pc # "qual" /\ NoError) => IsQualLine(qual, len)

C4_Witness ==
    /\ Len(out) = 8
    /\ len = PyInt(2)
    /\ out[4] = <<"E", "E">>
    /\ out[8] = out[4]

\* C5: the output is a sequence of whole records, each written in the order
\* name, sequence, "+", quality: position 4k holds a name line, 4k+1 a
\* sequence line, 4k+2 exactly "+", 4k+3 the quality line (0-indexed), and a
\* record is only ever incomplete while its own four prints are under way.
C5_RecordOrder ==
    /\ \A k \in 1..Len(out) : LineInPlace(k)
    /\ pc \in {"name", "seq", "print_name"} => Len(out) = 4 * (iters - 1)
    /\ pc = "print_seq" => Len(out) = 4 * (iters - 1) + 1 /\ out[Len(out)] = name
    /\ pc = "print_plus" => Len(out) = 4 * (iters - 1) + 2 /\ out[Len(out)] = seq
    /\ pc = "print_qual" => Len(out) = 4 * (iters - 1) + 3 /\ out[Len(out)] = <<"+">>
    /\ pc \in {"parse_args", "qual", "for", "exit"} => Len(out) = 4 * iters

C5_Witness ==
    /\ pc = "print_qual"
    /\ iters = 2
    /\ len = PyInt(1)
    /\ Len(out) = 7
    /\ out[7] = <<"+">>
    /\ out[6] # <<"+">>

\* the command line is an Argument Error: -reads is omitted, or the value of
\* -reads or of -len is no integer
ArgumentError ==
    \/ ~argv.reads.given
    \/ argv.reads.value \in MalformedTokens
    \/ argv.len.given /\ argv.len.value \in MalformedTokens

C7_NoErrorAfterParsing == Parsed => NoError

\* C7: once the arguments are parsed and len fits an index-sized integer
\* (-2^63 <= len < 2^63), no error is raised and the run eventually exits with
\* status 0 after exactly max(reads, 0) loop iterations; when len does not fit,
\* line 19 raises OverflowError and the run exits with status 1 before any
\* iteration.
C7_Termination ==
    /\ [](Parsed /\ FitsSsize(len) =>
              /\ NoError
              /\ pc = "exit" => exitcode = <<0>> /\ MadeIterations)
    /\ [](Parsed /\ ~FitsSsize(len) =>
              /\ iters = 0
              /\ pc \in {"qual", "exit"}
              /\ pc = "exit" => exitcode = <<1>>)
    /\ (Parsed /\ FitsSsize(len)) ~> (Exited(0) /\ MadeIterations)

C7_Witness ==
    /\ Exited(0)
    /\ reads = PyInt(2)
    /\ iters = 2
    /\ FitsSsize(len)

NonPositive(v) == v.neg \/ v.mag = <<0>>

\* C9 as stated: a zero or negative len raises no error.
C9_NonPositiveLenNoError ==
    (Parsed /\ NonPositive(len)) => NoError

\* C9: a zero or negative len that fits an index-sized integer (len >= -2^63)
\* raises no error; the sequence and quality lines are empty and every record
\* still has its four lines (name, empty line, "+", empty line), reads records
\* in a complete run.
C9_NonPositiveLen ==
    (Parsed /\ NonPositive(len) /\ FitsSsize(len)) =>
        /\ NoError
        /\ \A k \in 1..Len(out) :
               /\ k % 4 = 1 => IsNameLine(out[k])
               /\ k % 4 = 2 => out[k] = <<>>
               /\ k % 4 = 3 => out[k] = <<"+">>
               /\ k % 4 = 0 => out[k] = <<>>
        /\ pc = "exit" =>
               /\ exitcode = <<0>>
               /\ Len(out) = 4 * (IF reads.neg THEN 0 ELSE IntOf(reads))

C9_Witness ==
    /\ Exited(0)
    /\ reads = PyInt(2)
    /\ len = PyInt(-1)
    /\ Len(out) = 8
    /\ out[6] = <<>>
    /\ out[8] = <<>>

\* C10: in a second run with the same reads and len, every "+" line and every
\* quality line equals the line at the same position of the first run, and a
\* complete second run has as many lines as the first.
C10_SameQualityAcrossRuns ==
    run = 2 =>
        /\ Len(out) <= Len(prevOut)
        /\ \A k \in 1..Len(out) : k % 4 \in {0, 3} => out[k] = prevOut[k]
        /\ pc = "exit" => Len(out) = Len(prevOut)

\* two complete runs with the same arguments whose name lines and sequence
\* lines differ while their "+" and quality lines agree
C10_Witness ==
    /\ run = 2
    /\ pc = "exit"
    /\ Len(out) = 8
    /\ \A k \in {1, 2, 5, 6} : out[k] # prevOut[k]
    /\ \A k \in {3, 4, 7, 8} : out[k] = prevOut[k]

====
